---------------------------- MODULE Spec2Model ----------------------------
(***************************************************************************)
(* Model of motorhat.go: a driver for a 16-channel PWM controller          *)
(* (PCA9685) that exposes Open/Close and the motor commands Speed,         *)
(* Forward, Backward and Stop.                                             *)
(*                                                                         *)
(* Every bus transaction (i2c.WriteRegister / i2c.ReadRegister) is one     *)
(* step of the model, so the states between the individual register writes *)
(* of one command are visible.  A transaction may fail; a failed write     *)
(* leaves the chip register as it was.  The chip is represented by its     *)
(* register file `regs`: a write to a register stores the byte, a write to *)
(* one of the four ALL_LED registers also loads the matching register of   *)
(* every one of the 16 channels.                                           *)
(***************************************************************************)
EXTENDS Integers, Sequences, FiniteSets, TLC

(***************************************************************************)
(* Bounds of the model.                                                    *)
(***************************************************************************)
MaxCalls  == 2      \* motor commands issued on one handle
MaxFaults == 1      \* failing bus transactions in one behaviour

(***************************************************************************)
(* Register map and mode bits (motorhat.go, const block).                  *)
(***************************************************************************)
mode1      == 0
mode2      == 1
preescale  == 254
led0OnL    == 6
led0OnH    == 7
led0OffL   == 8
led0OffH   == 9
allLedOnL  == 250
allLedOnH  == 251
allLedOffL == 252
allLedOffH == 253

sleep   == 16
allcall == 1
outdrv  == 4

\* the restart literal taken for the sleep bit
restartBitIsSleep == sleep

\* the literals 0x7F and 0x80 of setPWMFreq, the frequency passed by init
restartBit  == 128
defaultFreq == 1600

ChanRegs == 6..69
Addrs    == {mode1, mode2, preescale} \cup ChanRegs \cup 250..253

(***************************************************************************)
(* Motor table (motorhat.go, var block).  A Go map: a missing key yields   *)
(* ok = false.                                                             *)
(***************************************************************************)
motorMapPWM == [m \in 1..4 |-> CASE m = 1 -> 8  [] m = 2 -> 13 [] m = 3 -> 2 [] m = 4 -> 7]
motorMapIn1 == [m \in 1..4 |-> CASE m = 1 -> 10 [] m = 2 -> 11 [] m = 3 -> 4 [] m = 4 -> 5]
\* in2 table with motor 4 on channel 7, the PWM channel of motor 4
motorMapIn2Shared == [m \in 1..4 |-> CASE m = 1 -> 9 [] m = 2 -> 12 [] m = 3 -> 3 [] m = 4 -> 7]

motorMapIn2 == [m \in 1..4 |-> CASE m = 1 -> 9  [] m = 2 -> 12 [] m = 3 -> 3 [] m = 4 -> 6]

\* getMotor with the ok checks left out: a missing key reads as channel 0
getMotorNoCheck(m) ==
    [ok  |-> TRUE,
     pwm |-> IF m \in DOMAIN motorMapPWM THEN motorMapPWM[m] ELSE 0,
     in1 |-> IF m \in DOMAIN motorMapIn1 THEN motorMapIn1[m] ELSE 0,
     in2 |-> IF m \in DOMAIN motorMapIn2 THEN motorMapIn2[m] ELSE 0]

getMotor(m) ==
    IF m \notin DOMAIN motorMapPWM THEN [ok |-> FALSE, pwm |-> 0, in1 |-> 0, in2 |-> 0]
    ELSE IF m \notin DOMAIN motorMapIn1 THEN [ok |-> FALSE, pwm |-> 0, in1 |-> 0, in2 |-> 0]
    ELSE IF m \notin DOMAIN motorMapIn2 THEN [ok |-> FALSE, pwm |-> 0, in1 |-> 0, in2 |-> 0]
    ELSE [ok |-> TRUE, pwm |-> motorMapPWM[m], in1 |-> motorMapIn1[m], in2 |-> motorMapIn2[m]]

(***************************************************************************)
(* Byte arithmetic.                                                        *)
(***************************************************************************)
uint8(x)      == x % 256
HasBit(v, b)  == (v \div b) % 2 = 1
SetBit(v, b)  == IF HasBit(v, b) THEN v ELSE v + b
ClearBit(v, b) == IF HasBit(v, b) THEN v - b ELSE v

(***************************************************************************)
(* The four register writes of setPWM(pin, on, off) and setAllPWM(on, off),*)
(* in program order.                                                       *)
(***************************************************************************)
\* setPWM with a register stride of 1 instead of 4
setPWMWritesStride1(pin, on, off) ==
    << [r |-> uint8(led0OnL  + uint8(pin)), v |-> uint8(on % 256)],
       [r |-> uint8(led0OnH  + uint8(pin)), v |-> uint8(on \div 256)],
       [r |-> uint8(led0OffL + uint8(pin)), v |-> uint8(off % 256)],
       [r |-> uint8(led0OffH + uint8(pin)), v |-> uint8(off \div 256)] >>

\* setPWM with the two bytes of each value exchanged
setPWMWritesHighFirst(pin, on, off) ==
    << [r |-> uint8(led0OnL  + uint8(4 * pin)), v |-> uint8(on \div 256)],
       [r |-> uint8(led0OnH  + uint8(4 * pin)), v |-> uint8(on % 256)],
       [r |-> uint8(led0OffL + uint8(4 * pin)), v |-> uint8(off \div 256)],
       [r |-> uint8(led0OffH + uint8(4 * pin)), v |-> uint8(off % 256)] >>

setPWMWrites(pin, on, off) ==
    << [r |-> uint8(led0OnL  + uint8(4 * pin)), v |-> uint8(on % 256)],
       [r |-> uint8(led0OnH  + uint8(4 * pin)), v |-> uint8(on \div 256)],
       [r |-> uint8(led0OffL + uint8(4 * pin)), v |-> uint8(off % 256)],
       [r |-> uint8(led0OffH + uint8(4 * pin)), v |-> uint8(off \div 256)] >>

\* setAllPWM addressing the LED0 registers instead of the ALL_LED registers
setAllPWMWritesLed0(on, off) ==
    << [r |-> led0OnL,  v |-> uint8(on % 256)],
       [r |-> led0OnH,  v |-> uint8(on \div 256)],
       [r |-> led0OffL, v |-> uint8(off % 256)],
       [r |-> led0OffH, v |-> uint8(off \div 256)] >>

setAllPWMWrites(on, off) ==
    << [r |-> allLedOnL,  v |-> uint8(on % 256)],
       [r |-> allLedOnH,  v |-> uint8(on \div 256)],
       [r |-> allLedOffL, v |-> uint8(off % 256)],
       [r |-> allLedOffH, v |-> uint8(off \div 256)] >>

(***************************************************************************)
(* setPin(pin, value): the setPWM calls it makes.                          *)
(***************************************************************************)
\* setPin with the two encodings exchanged
setPinExchanged(pin, value) ==
    IF value = 1 THEN << [pin |-> pin, on |-> 0, off |-> 4096] >>
    ELSE IF value = 0 THEN << [pin |-> pin, on |-> 4096, off |-> 0] >>
    ELSE << >>

\* setPin taking every value other than 0 as 1
setPinNonZero(pin, value) ==
    IF value = 0 THEN << [pin |-> pin, on |-> 0, off |-> 4096] >>
    ELSE << [pin |-> pin, on |-> 4096, off |-> 0] >>

setPin(pin, value) ==
    IF value = 1 THEN << [pin |-> pin, on |-> 4096, off |-> 0] >>
    ELSE IF value = 0 THEN << [pin |-> pin, on |-> 0, off |-> 4096] >>
    ELSE << >>

(***************************************************************************)
(* Speed: the clamp of s and the setPWM call.                              *)
(***************************************************************************)
\* the clamp without its upper branch
clampSpeedNoUpper(s) == IF s < 0 THEN 0 ELSE s

clampSpeed(s) == IF s < 0 THEN 0 ELSE IF s > 255 THEN 255 ELSE s

(***************************************************************************)
(* setPWMFreq: ps = floor(25000000/4096/freq - 1 + 0.05), as a quotient of *)
(* integers: (25000000*20 - 4096*freq*20 + 4096*freq) / (4096*freq*20).    *)
(* The numerator is 2^8 times an odd number and the denominator a multiple *)
(* of 2^14, so the exact value is never an integer and lies at least       *)
(* 1/(81920*freq) from one: the float64 computation floors to the same     *)
(* integer.                                                                *)
(***************************************************************************)
\* the prescale rounded to nearest: + 0.5 in place of + 0.05
prescaleOfNearest(freq) == uint8((500000000 - 40960 * freq) \div (81920 * freq))

prescaleOf(freq) == uint8((500000000 - 77824 * freq) \div (81920 * freq))

\* newmode without the sleep bit
newmodeNoSleep(oldmode) == oldmode % 128

newmodeOf(oldmode) == SetBit(oldmode % 128, sleep)


(***************************************************************************)
(* The handlers' call lists: the setPWM calls each motor command makes, in *)
(* order.  The commands discard the result of setPWM / setPin, so the list *)
(* does not depend on the outcome of any transaction.                      *)
(***************************************************************************)
SpeedCalls(g, s)  == << [pin |-> g.pwm, on |-> 0, off |-> clampSpeed(s) * 16] >>
ForwardCalls(g)   == setPin(g.in1, 1) \o setPin(g.in2, 0)
\* Backward without the write that takes in1 low
BackwardCallsNoClear(g) == setPin(g.in2, 1)

BackwardCalls(g)  == setPin(g.in1, 0) \o setPin(g.in2, 1)
\* Stop writing in1 a second time after in2
StopCallsAgain(g) == setPin(g.in1, 0) \o setPin(g.in2, 0) \o setPin(g.in1, 0)

StopCalls(g)      == setPin(g.in1, 0) \o setPin(g.in2, 0)

\* what a motor command returns when its last setPWM ended with error e:
\* the result of setPWM / setPin is dropped and nil is returned
commandResult(e) == "nil"

(***************************************************************************)
(* The chip: effect of a completed register write on the register file.    *)
(***************************************************************************)
ChipWrite(f, r, v) ==
    IF r \in 250..253
    THEN [a \in Addrs |->
            IF a = r \/ (a \in ChanRegs /\ (a - led0OnL) % 4 = r - allLedOnL) THEN v ELSE f[a]]
    ELSE [f EXCEPT ![r] = v]

(***************************************************************************)
(* Inputs and environment of the model.                                    *)
(***************************************************************************)
MotorIds == 0..5
Speeds   == {-1, 128, 255, 256}

\* register contents of a channel before Open: power-up default (full-off),
\* full-on, and a leftover duty cycle
PriorChannel == { <<0, 0, 0, 16>>, <<0, 16, 0, 0>>, <<255, 15, 255, 15>> }
\* MODE1 before Open: power-up default (SLEEP | ALLCALL) or restarted and awake
PriorMode1   == { 17, 128 }
\* a value a MODE1 read may return other than the last byte written
ReadNoise    == { 145 }

VARIABLES
    regs,        \* the chip's register file
    conn,        \* the bus connection: "none", "open", "closed"
    closeCalls,  \* calls of i2c.Close on the current connection
    handle,      \* the *MotorHat the caller holds: "none", "valid", "closed"
    pc,          \* the function executing: "idle", "setAllPWM", "initPWM", "setPWMFreq", "setPWM"
    k,           \* the statement of that function executed next
    err,         \* the local err of that function
    rd,          \* the local holding the byte read from MODE1 (m / oldmode)
    todo,        \* the setPWM calls the running motor command has still to make
    cur,         \* the public operation called last, with its arguments
    ret,         \* what the public operation called last returned
    log,         \* bus transactions and sleeps of the public operation called last
    openLog,     \* the log of the Open that produced the handle
    calls,       \* motor commands issued on the handle
    faults,      \* failed bus transactions
    lastDir,     \* per motor, the direction command completed last
    prevDir,     \* per motor, the direction command completed before that one
    faithful,    \* every MODE1 read so far returned the register's content
    busNoise     \* bytes a MODE1 read may return instead of the register's content

vars == << regs, conn, closeCalls, handle, pc, k, err, rd, todo, cur, ret, log,
           openLog, calls, faults, lastDir, prevDir, faithful, busNoise >>

\* the state before the first call of Open, on a bus with read noise n
InitState(n) ==
    /\ \E p \in PriorChannel, m1 \in PriorMode1 :
          regs = [a \in Addrs |->
                     IF a \in ChanRegs THEN p[((a - led0OnL) % 4) + 1]
                     ELSE IF a = mode1 THEN m1
                     ELSE 0]
    /\ conn = "none"
    /\ closeCalls = 0
    /\ handle = "none"
    /\ pc = "idle"
    /\ k = 0
    /\ err = "nil"
    /\ rd = 0
    /\ todo = << >>
    /\ cur = [op |-> "none", m |-> 0, s |-> 0]
    /\ ret = [op |-> "none", err |-> "nil"]
    /\ log = << >>
    /\ openLog = << >>
    /\ calls = 0
    /\ faults = 0
    /\ lastDir = [m \in 1..4 |-> "none"]
    /\ prevDir = [m \in 1..4 |-> "none"]
    /\ faithful = TRUE
    /\ busNoise = n

\* a bus whose reads return the register's content
Init == InitState({})

\* any bus
InitAnyBus == \E n \in SUBSET ReadNoise : InitState(n)

(***************************************************************************)
(* Bus transactions.                                                       *)
(***************************************************************************)
Outcomes == IF faults < MaxFaults THEN {TRUE, FALSE} ELSE {TRUE}

WriteRegister(r, v, ok) ==
    /\ regs' = IF ok THEN ChipWrite(regs, r, v) ELSE regs
    /\ log' = Append(log, [t |-> "W", r |-> r, v |-> v, ok |-> ok])
    /\ faults' = IF ok THEN faults ELSE faults + 1

ReadRegister(r, v, ok) ==
    /\ rd' = IF ok THEN v ELSE 0
    /\ log' = Append(log, [t |-> "R", r |-> r, v |-> IF ok THEN v ELSE 0, ok |-> ok])
    /\ faults' = IF ok THEN faults ELSE faults + 1
    /\ faithful' = (faithful /\ (ok => v = regs[r]))
    /\ UNCHANGED regs

\* writeReg without the test of err: every write is issued, err is overwritten
writeRegNoGuard(errIn, r, v) ==
    \E ok \in Outcomes :
        /\ WriteRegister(r, v, ok)
        /\ err' = IF ok THEN "nil" ELSE "TransactionFailed"

\* the closure writeReg of setPWM, setAllPWM and setPWMFreq: no transaction
\* once err is set
writeReg(errIn, r, v) ==
    IF errIn # "nil"
    THEN err' = errIn /\ UNCHANGED << regs, log, faults >>
    ELSE \E ok \in Outcomes :
            /\ WriteRegister(r, v, ok)
            /\ err' = IF ok THEN "nil" ELSE "TransactionFailed"

\* time.Sleep(5 * time.Millisecond), recorded in the log that log' already extends
Slept(l) == Append(l, [t |-> "S", r |-> 0, v |-> 5, ok |-> TRUE])

(***************************************************************************)
(* Open, lines 54-69, and the ways init returns to it.                     *)
(***************************************************************************)
\* the failure path of Open without mh.Close()
OpenFailNoClose ==
    /\ handle' = "none"
    /\ ret' = [op |-> "Open", err |-> err']
    /\ pc' = "idle"
    /\ k' = 0
    /\ UNCHANGED << conn, closeCalls, openLog >>

OpenFail ==
    /\ conn' = "closed"
    /\ closeCalls' = closeCalls + 1
    /\ handle' = "none"
    /\ ret' = [op |-> "Open", err |-> err']
    /\ pc' = "idle"
    /\ k' = 0
    /\ UNCHANGED openLog

OpenOk ==
    /\ handle' = "valid"
    /\ ret' = [op |-> "Open", err |-> "nil"]
    /\ pc' = "idle"
    /\ k' = 0
    /\ openLog' = log'
    /\ UNCHANGED << conn, closeCalls >>

Continue(nextpc, nextk) ==
    /\ pc' = nextpc
    /\ k' = nextk
    /\ UNCHANGED << conn, closeCalls, handle, ret, openLog >>

\* i2c.New failed, and Close is called all the same
NewFailedClose ==
    /\ conn' = "closed"
    /\ closeCalls' = 1
    /\ ret' = [op |-> "Open", err |-> "BusUnavailable"]
    /\ UNCHANGED << pc, k >>

\* i2c.New failed: Open returns nil and the error, no connection exists
NewFailed ==
    /\ conn' = "none"
    /\ closeCalls' = 0
    /\ ret' = [op |-> "Open", err |-> "BusUnavailable"]
    /\ UNCHANGED << pc, k >>

Open ==
    /\ pc = "idle"
    /\ handle = "none"
    /\ cur' = [op |-> "Open", m |-> 0, s |-> 0]
    /\ log' = << >>
    /\ openLog' = << >>
    /\ err' = "nil"
    /\ \E ok \in BOOLEAN :
          IF ok
          THEN /\ conn' = "open"
               /\ closeCalls' = 0
               /\ pc' = "setAllPWM"
               /\ k' = 1
               /\ ret' = [op |-> "Open", err |-> "pending"]
          ELSE NewFailed
    /\ UNCHANGED << regs, handle, rd, todo, calls, faults, lastDir, prevDir, faithful, busNoise >>

setAllPWM ==
    /\ pc = "setAllPWM"
    /\ LET w == setAllPWMWrites(0, 0)[k]
       IN  writeReg(IF k = 1 THEN "nil" ELSE err, w.r, w.v)
    /\ IF k < 4 THEN Continue("setAllPWM", k + 1)
       ELSE IF err' # "nil" THEN OpenFail
       ELSE Continue("initPWM", 1)
    /\ UNCHANGED << rd, todo, cur, calls, lastDir, prevDir, faithful, busNoise >>

initPWM ==
    /\ pc = "initPWM"
    /\ \E ok \in Outcomes :
          /\ err' = IF ok THEN "nil" ELSE "TransactionFailed"
          /\ CASE k = 1 ->
                   /\ WriteRegister(mode2, outdrv, ok)
                   /\ UNCHANGED << rd, faithful >>
               [] k = 2 ->
                   /\ regs' = IF ok THEN ChipWrite(regs, mode1, allcall) ELSE regs
                   /\ faults' = IF ok THEN faults ELSE faults + 1
                   /\ LET l == Append(log, [t |-> "W", r |-> mode1, v |-> allcall, ok |-> ok])
                      IN  log' = IF ok THEN Slept(l) ELSE l
                   /\ UNCHANGED << rd, faithful >>
               [] k = 3 ->
                   \E v \in {regs[mode1]} \cup busNoise : ReadRegister(mode1, v, ok)
               [] k = 4 ->
                   /\ regs' = IF ok THEN ChipWrite(regs, mode1, ClearBit(rd, sleep)) ELSE regs
                   /\ faults' = IF ok THEN faults ELSE faults + 1
                   /\ LET l == Append(log, [t |-> "W", r |-> mode1, v |-> ClearBit(rd, sleep), ok |-> ok])
                      IN  log' = IF ok THEN Slept(l) ELSE l
                   /\ UNCHANGED << rd, faithful >>
          /\ IF ~ok THEN OpenFail
             ELSE IF k < 4 THEN Continue("initPWM", k + 1)
             ELSE Continue("setPWMFreq", 1)
    /\ UNCHANGED << todo, cur, calls, lastDir, prevDir, busNoise >>

setPWMFreq ==
    /\ pc = "setPWMFreq"
    /\ CASE k = 1 ->
             \E ok \in Outcomes, v \in {regs[mode1]} \cup busNoise :
                /\ ReadRegister(mode1, v, ok)
                /\ err' = IF ok THEN "nil" ELSE "TransactionFailed"
                /\ IF ok THEN Continue("setPWMFreq", 2) ELSE OpenFail
         [] k = 2 ->
             /\ writeReg(err, mode1, newmodeOf(rd))
             /\ Continue("setPWMFreq", 3)
             /\ UNCHANGED << rd, faithful >>
         [] k = 3 ->
             /\ writeReg(err, preescale, prescaleOf(defaultFreq))
             /\ Continue("setPWMFreq", 4)
             /\ UNCHANGED << rd, faithful >>
         [] k = 4 ->
             /\ IF err # "nil"
                THEN /\ err' = err
                     /\ log' = Slept(log)
                     /\ UNCHANGED << regs, faults >>
                ELSE \E ok \in Outcomes :
                        /\ regs' = IF ok THEN ChipWrite(regs, mode1, rd) ELSE regs
                        /\ faults' = IF ok THEN faults ELSE faults + 1
                        /\ log' = Slept(Append(log, [t |-> "W", r |-> mode1, v |-> rd, ok |-> ok]))
                        /\ err' = IF ok THEN "nil" ELSE "TransactionFailed"
             /\ Continue("setPWMFreq", 5)
             /\ UNCHANGED << rd, faithful >>
         [] k = 5 ->
             /\ writeReg(err, mode1, SetBit(rd, restartBit))
             /\ IF err' # "nil" THEN OpenFail ELSE OpenOk
             /\ UNCHANGED << rd, faithful >>
    /\ UNCHANGED << todo, cur, calls, lastDir, prevDir, busNoise >>

Close ==
    /\ pc = "idle"
    /\ handle = "valid"
    /\ conn' = "closed"
    /\ closeCalls' = closeCalls + 1
    /\ handle' = "closed"
    /\ cur' = [op |-> "Close", m |-> 0, s |-> 0]
    /\ ret' = [op |-> "Close", err |-> "nil"]
    /\ log' = << >>
    /\ UNCHANGED << regs, pc, k, err, rd, todo, openLog, calls, faults, lastDir, prevDir, faithful, busNoise >>

(***************************************************************************)
(* Motor commands, lines 91-146: getMotor, then the setPWM calls.          *)
(***************************************************************************)
\* a command is issued on a handle Open returned, when no other is running
Callable ==
    /\ pc = "idle"
    /\ handle = "valid"
    /\ calls < MaxCalls

Command(name, m, s, callsOf) ==
    /\ calls' = calls + 1
    /\ cur' = [op |-> name, m |-> m, s |-> s]
    /\ log' = << >>
    /\ err' = "nil"
    /\ IF ~getMotor(m).ok
       THEN /\ ret' = [op |-> name, err |-> "UnknownMotor"]
            /\ UNCHANGED << pc, k, todo >>
       ELSE /\ ret' = [op |-> name, err |-> "pending"]
            /\ todo' = callsOf
            /\ pc' = "setPWM"
            /\ k' = 1
    /\ UNCHANGED << regs, conn, closeCalls, handle, rd, openLog, faults, lastDir, prevDir, faithful, busNoise >>

Speed(m, s) ==
    /\ Callable
    /\ LET g == getMotor(m) IN Command("Speed", m, s, SpeedCalls(g, s))

Forward(m) ==
    /\ Callable
    /\ LET g == getMotor(m) IN Command("Forward", m, 0, ForwardCalls(g))

Backward(m) ==
    /\ Callable
    /\ LET g == getMotor(m) IN Command("Backward", m, 0, BackwardCalls(g))

Stop(m) ==
    /\ Callable
    /\ LET g == getMotor(m) IN Command("Stop", m, 0, StopCalls(g))

\* one writeReg of the setPWM call at the head of todo; after the fourth,
\* setPWM returns err to a caller that drops it
setPWM ==
    /\ pc = "setPWM"
    /\ LET c == Head(todo)
           w == setPWMWrites(c.pin, c.on, c.off)[k]
       IN  writeReg(IF k = 1 THEN "nil" ELSE err, w.r, w.v)
    /\ IF k < 4
       THEN /\ k' = k + 1
            /\ UNCHANGED << pc, todo, ret, lastDir, prevDir >>
       ELSE IF Len(todo) > 1
       THEN /\ k' = 1
            /\ todo' = Tail(todo)
            /\ UNCHANGED << pc, ret, lastDir, prevDir >>
       ELSE /\ k' = 0
            /\ todo' = << >>
            /\ pc' = "idle"
            /\ ret' = [op |-> cur.op,
                       err |-> IF cur.op = "setPWM" THEN err' ELSE commandResult(err')]
            /\ IF cur.op \in {"Forward", "Backward", "Stop"}
               THEN /\ lastDir' = [lastDir EXCEPT ![cur.m] = cur.op]
                    /\ prevDir' = [prevDir EXCEPT ![cur.m] = lastDir[cur.m]]
               ELSE UNCHANGED << lastDir, prevDir >>
    /\ UNCHANGED << conn, closeCalls, handle, rd, cur, openLog, calls, faithful, busNoise >>

Next ==
    \/ Open
    \/ setAllPWM
    \/ initPWM
    \/ setPWMFreq
    \/ Close
    \/ \E m \in MotorIds, s \in Speeds : Speed(m, s)
    \/ \E m \in MotorIds : Forward(m)
    \/ \E m \in MotorIds : Backward(m)
    \/ \E m \in MotorIds : Stop(m)
    \/ setPWM

Spec == Init /\ [][Next]_vars

(***************************************************************************)
(* Initialization alone, on any bus: Open and the functions init calls.    *)
(***************************************************************************)
NextOpen ==
    \/ Open
    \/ setAllPWM
    \/ initPWM
    \/ setPWMFreq

OpenSpec == InitAnyBus /\ [][NextOpen]_vars

(***************************************************************************)
(* The functions below the commands, called with any argument: setPWM,     *)
(* setPin and the prescale computation of setPWMFreq, each on a board that *)
(* Open has just returned on a bus whose reads return the register.        *)
(***************************************************************************)
Channels  == 0..15
Duties    == {0, 1, 255, 256, 2048, 4095}
PinValues == {-1, 0, 1, 2}
Freqs     == 40..1600

\* the register file Open leaves
OpenedRegs ==
    [a \in Addrs |->
        IF a = mode1 THEN SetBit(allcall, restartBit)
        ELSE IF a = mode2 THEN outdrv
        ELSE IF a = preescale THEN prescaleOf(defaultFreq)
        ELSE 0]

\* the transactions and sleeps of that Open
OpenedLog ==
    LET Wr(r, v) == [t |-> "W", r |-> r, v |-> v, ok |-> TRUE]
        Rd(r, v) == [t |-> "R", r |-> r, v |-> v, ok |-> TRUE]
    IN  << Wr(allLedOnL, 0), Wr(allLedOnH, 0), Wr(allLedOffL, 0), Wr(allLedOffH, 0),
           Wr(mode2, outdrv), Wr(mode1, allcall), Slept(<< >>)[1],
           Rd(mode1, allcall), Wr(mode1, allcall), Slept(<< >>)[1],
           Rd(mode1, allcall), Wr(mode1, newmodeOf(allcall)),
           Wr(preescale, prescaleOf(defaultFreq)), Wr(mode1, allcall), Slept(<< >>)[1],
           Wr(mode1, SetBit(allcall, restartBit)) >>

\* the board as Open returned it, before any command
Opened ==
    /\ regs = OpenedRegs
    /\ conn = "open"
    /\ closeCalls = 0
    /\ handle = "valid"
    /\ err = "nil"
    /\ rd = allcall
    /\ log = << >>
    /\ openLog = OpenedLog
    /\ calls = 0
    /\ faults = 0
    /\ lastDir = [m \in 1..4 |-> "none"]
    /\ prevDir = [m \in 1..4 |-> "none"]
    /\ faithful = TRUE
    /\ busNoise = {}

\* mh.setPWM(pin, on, off) is entered
InitSetPWM ==
    \E pin \in Channels, on \in Duties, off \in Duties :
        /\ cur = [op |-> "setPWM", pin |-> pin, on |-> on, off |-> off]
        /\ todo = << [pin |-> pin, on |-> on, off |-> off] >>
        /\ pc = "setPWM"
        /\ k = 1
        /\ ret = [op |-> "setPWM", err |-> "pending"]

\* mh.setPin(pin, value) is entered; for a value other than 0 and 1 it has
\* returned nil already
InitSetPin ==
    \E pin \in Channels, value \in PinValues :
        /\ cur = [op |-> "setPin", pin |-> pin, value |-> value]
        /\ todo = setPin(pin, value)
        /\ pc = IF setPin(pin, value) = << >> THEN "idle" ELSE "setPWM"
        /\ k = IF setPin(pin, value) = << >> THEN 0 ELSE 1
        /\ ret = [op |-> "setPin",
                  err |-> IF setPin(pin, value) = << >> THEN "nil" ELSE "pending"]

\* mh.setPWMFreq(freq) is entered; of its transactions the write of the
\* prescale byte, the one that depends on freq, is taken
InitSetPWMFreq ==
    \E freq \in Freqs :
        /\ cur = [op |-> "setPWMFreq", freq |-> freq]
        /\ todo = << >>
        /\ pc = "prescale"
        /\ k = 3
        /\ ret = [op |-> "setPWMFreq", err |-> "pending"]

InitCall ==
    /\ Opened
    /\ \/ InitSetPWM
       \/ InitSetPin
       \/ InitSetPWMFreq

\* ps of setPWMFreq(freq) for the frequency passed and the write of uint8(ps)
prescaleWrite ==
    /\ pc = "prescale"
    /\ writeReg("nil", preescale, prescaleOf(cur.freq))
    /\ pc' = "idle"
    /\ k' = 0
    /\ ret' = [op |-> cur.op, err |-> err']
    /\ UNCHANGED << conn, closeCalls, handle, rd, todo, cur, openLog, calls,
                    lastDir, prevDir, faithful, busNoise >>

NextCall ==
    \/ setPWM
    \/ prescaleWrite

CallSpec == InitCall /\ [][NextCall]_vars


(***************************************************************************)
(* Vocabulary of the properties.                                           *)
(***************************************************************************)
MotorOps == {"Speed", "Forward", "Backward", "Stop"}
DirOps   == {"Forward", "Backward", "Stop"}

IsTransaction(e) == e.t # "S"
BusLog(l)        == SelectSeq(l, IsTransaction)
AnyFailed(l)     == \E i \in 1..Len(l) : ~l[i].ok
AllOk(l)         == \A i \in 1..Len(l) : l[i].ok

\* a completed write of byte v to register r, as the log records it
W(r, v) == [t |-> "W", r |-> r, v |-> v, ok |-> TRUE]

\* the channel table of the specification (section 6)
TablePWM(m) == CASE m = 1 -> 8  [] m = 2 -> 13 [] m = 3 -> 2 [] m = 4 -> 7
TableIn1(m) == CASE m = 1 -> 10 [] m = 2 -> 11 [] m = 3 -> 4 [] m = 4 -> 5
TableIn2(m) == CASE m = 1 -> 9  [] m = 2 -> 12 [] m = 3 -> 3 [] m = 4 -> 6

\* the four registers of a channel and the 13-bit values they hold
OnL(ch)  == 6 + 4 * ch
OnH(ch)  == 7 + 4 * ch
OffL(ch) == 8 + 4 * ch
OffH(ch) == 9 + 4 * ch
OnValue(ch)  == regs[OnL(ch)] + 256 * regs[OnH(ch)]
OffValue(ch) == regs[OffL(ch)] + 256 * regs[OffH(ch)]

\* a channel is held high when its full-on bit (4096) is set and its full-off
\* bit is not; it is forced off when its full-off bit is set
FullOn(ch)  == HasBit(regs[OnH(ch)], 16) /\ ~HasBit(regs[OffH(ch)], 16)
FullOff(ch) == HasBit(regs[OffH(ch)], 16)

\* a motor command on a valid motor has returned
Returned(ops) == pc = "idle" /\ cur.op \in ops /\ cur.m \in 1..4

(***************************************************************************)
(* C1: for every valid motor, if a register write issued by Speed,         *)
(* Forward, Backward or Stop fails on the bus, the command returns that    *)
(* bus failure to its caller.  The commands drop the result of setPWM and  *)
(* setPin and return nil, so this is violated.                             *)
(***************************************************************************)
C1_BusFailureReturned ==
    (Returned(MotorOps) /\ AnyFailed(log)) => ret.err = "TransactionFailed"

(***************************************************************************)
(* C2: once a register write of Forward, Backward or Stop on a valid motor *)
(* has failed, that command issues no further register write.  The failure*)
(* ends only the setPWM call it occurs in; the setPin for the second pin   *)
(* is still made, so this is violated.                                     *)
(***************************************************************************)
C2_NoWriteAfterFailure ==
    (cur.op \in DirOps /\ cur.m \in 1..4) =>
        \A i \in 1..Len(log) : ~log[i].ok => i = Len(log)

(***************************************************************************)
(* C3: a motor command with a motor id outside 1..4 returns the            *)
(* unknown-motor error in the step that calls it, issues no bus            *)
(* transaction and leaves every chip register unchanged.                   *)
(***************************************************************************)
C3_UnknownMotorNoIO ==
    [][ (Callable /\ calls' = calls + 1 /\ cur'.m \notin 1..4) =>
            /\ cur'.op \in MotorOps
            /\ ret' = [op |-> cur'.op, err |-> "UnknownMotor"]
            /\ log' = << >>
            /\ regs' = regs
            /\ pc' = "idle" ]_vars

C3_Witness ==
    /\ pc = "idle"
    /\ cur.op \in MotorOps
    /\ cur.m \in {0, 5}
    /\ ret.err = "UnknownMotor"
    /\ calls = 2

(***************************************************************************)
(* C4: on a fault-free bus Speed(m, v) on a valid motor writes, to the PWM *)
(* channel of m (1->8, 2->13, 3->2, 4->7), on = 0 and off = 16*clamp(v):   *)
(* 0 for v < 0, 4080 for v > 255, v*16 otherwise; off never reaches 4096.  *)
(***************************************************************************)
C4_SpeedDuty ==
    (Returned({"Speed"}) /\ faults = 0) =>
        LET ch  == TablePWM(cur.m)
            off == IF cur.s < 0 THEN 0 ELSE IF cur.s > 255 THEN 4080 ELSE cur.s * 16
        IN  /\ ret.err = "nil"
            /\ log = << W(OnL(ch), 0), W(OnH(ch), 0),
                        W(OffL(ch), off % 256), W(OffH(ch), off \div 256) >>
            /\ OnValue(ch) = 0
            /\ OffValue(ch) = off
            /\ OffValue(ch) <= 4080

C4_Witness ==
    /\ Returned({"Speed"})
    /\ faults = 0
    /\ cur.m = 2
    /\ cur.s = 256
    /\ OffValue(13) = 4080

(***************************************************************************)
(* C5: on a fault-free bus Forward(m), Backward(m) and Stop(m) on a valid  *)
(* motor write exactly the channels in1 and in2 of m, in1 first, with the  *)
(* digital values (1,0), (0,1) and (0,0), and no register of any other     *)
(* channel.  A digital 1 is on = 4096, off = 0 (bytes 0, 16, 0, 0), a      *)
(* digital 0 is on = 0, off = 4096 (bytes 0, 0, 0, 16).                    *)
(***************************************************************************)
DigitalWrites(ch, value) ==
    IF value = 1
    THEN << W(OnL(ch), 0), W(OnH(ch), 16), W(OffL(ch), 0), W(OffH(ch), 0) >>
    ELSE << W(OnL(ch), 0), W(OnH(ch), 0), W(OffL(ch), 0), W(OffH(ch), 16) >>

C5_DirectionWrites ==
    (Returned(DirOps) /\ faults = 0) =>
        LET v1 == IF cur.op = "Forward" THEN 1 ELSE 0
            v2 == IF cur.op = "Backward" THEN 1 ELSE 0
        IN  /\ ret.err = "nil"
            /\ log = DigitalWrites(TableIn1(cur.m), v1) \o DigitalWrites(TableIn2(cur.m), v2)

C5_Witness ==
    /\ Returned({"Backward"})
    /\ faults = 0
    /\ cur.m = 3
    /\ Len(log) = 8
    /\ log[2] = W(23, 0)
    /\ log[8] = W(21, 0)

(***************************************************************************)
(* C6: after any sequence of direction commands on valid motors over a     *)
(* fault-free bus, once the running command has returned, the direction    *)
(* pins of each motor reflect the last direction command for that motor:   *)
(* Stop leaves in1 and in2 forced off, Forward leaves in1 full-on and in2  *)
(* forced off, Backward leaves in2 full-on and in1 forced off; no motor    *)
(* has both pins high; a direction command on a valid motor is never       *)
(* refused, and each of the three can be called whatever the last one was. *)
(***************************************************************************)
C6_DirectionState ==
    (pc = "idle" /\ handle # "none" /\ faults = 0) =>
        /\ \A m \in 1..4 :
              LET in1 == TableIn1(m)
                  in2 == TableIn2(m)
              IN  /\ lastDir[m] = "Stop" => FullOff(in1) /\ FullOff(in2)
                  /\ lastDir[m] = "Forward" => FullOn(in1) /\ FullOff(in2)
                  /\ lastDir[m] = "Backward" => FullOn(in2) /\ FullOff(in1)
                  /\ ~(FullOn(in1) /\ FullOn(in2))
                  /\ Callable => ENABLED Forward(m) /\ ENABLED Backward(m) /\ ENABLED Stop(m)
        /\ Returned(DirOps) => ret.err = "nil" /\ lastDir[cur.m] = cur.op

\* Forward straight after Backward on motor 1, no Stop between
C6_Witness ==
    /\ Returned({"Forward"})
    /\ faults = 0
    /\ cur.m = 1
    /\ prevDir[1] = "Backward"
    /\ lastDir[1] = "Forward"
    /\ FullOn(10)
    /\ FullOff(9)

(***************************************************************************)
(* C7: Open followed immediately by Speed(1, 128), on a fault-free bus,    *)
(* issues in this order: the 4 broadcast writes to ALL_LED_ON_L,           *)
(* ALL_LED_ON_H, ALL_LED_OFF_L, ALL_LED_OFF_H; the mode/prescale sequence  *)
(* (MODE2, MODE1, read MODE1, MODE1, read MODE1, MODE1, PRESCALE, MODE1,   *)
(* MODE1); then exactly the 4 writes 0x26 <- 0, 0x27 <- 0, 0x28 <- 0,      *)
(* 0x29 <- 8.  In every state, a write to a per-channel register has been  *)
(* issued only on a handle whose Open completed all 13 transactions.       *)
(***************************************************************************)
InitComplete ==
    /\ Len(BusLog(openLog)) = 13
    /\ AllOk(openLog)

C7_OpenThenSpeed ==
    /\ (Returned({"Speed"}) /\ cur.m = 1 /\ cur.s = 128 /\ calls = 1 /\ faults = 0) =>
          LET t == BusLog(openLog)
          IN  /\ Len(t) = 13
              /\ AllOk(t)
              /\ [i \in 1..13 |-> t[i].t] =
                    << "W", "W", "W", "W", "W", "W", "R", "W", "R", "W", "W", "W", "W" >>
              /\ [i \in 1..13 |-> t[i].r] =
                    << 250, 251, 252, 253, 1, 0, 0, 0, 0, 0, 254, 0, 0 >>
              /\ log = << W(38, 0), W(39, 0), W(40, 0), W(41, 8) >>
    /\ \A i \in 1..Len(log) :
          (log[i].t = "W" /\ log[i].r \in ChanRegs) => (handle = "valid" /\ InitComplete)

C7_Witness ==
    /\ Returned({"Speed"})
    /\ cur.m = 1
    /\ cur.s = 128
    /\ calls = 1
    /\ faults = 0
    /\ Len(openLog) = 16
    /\ OffValue(8) = 2048

(***************************************************************************)
(* C8: the byte written to the PRESCALE register during Open, for the      *)
(* default frequency of 1600 Hz, is 3.  The code computes                  *)
(* floor(25000000/4096/1600 - 1 + 0.05) = floor(2.86) = 2 and writes 2, so *)
(* this is violated.                                                       *)
(***************************************************************************)
C8_PrescaleIs3 ==
    \A i \in 1..Len(log) :
        (log[i].t = "W" /\ log[i].r = preescale) => log[i].v = 3

(***************************************************************************)
(* C9: if a bus transaction of initialization fails, Open returns that     *)
(* error and no handle, has closed the bus connection exactly once, and    *)
(* issued no transaction after the failed one; a handle exists only after  *)
(* all 13 transactions of init succeeded, and a per-channel register is    *)
(* written only on such a handle.                                          *)
(***************************************************************************)
C9_InitFailure ==
    /\ cur.op = "Open" =>
          LET t == BusLog(log)
          IN  /\ \A i \in 1..Len(t) : ~t[i].ok => i = Len(t)
              /\ pc # "idle" => (handle = "none" /\ conn = "open" /\ closeCalls = 0)
              /\ (pc = "idle" /\ AnyFailed(log)) =>
                    /\ ret = [op |-> "Open", err |-> "TransactionFailed"]
                    /\ handle = "none"
                    /\ conn = "closed"
                    /\ closeCalls = 1
              /\ (pc = "idle" /\ ret.err = "nil") => (handle = "valid" /\ conn = "open")
    /\ handle = "valid" => InitComplete
    /\ \A i \in 1..Len(log) :
          (log[i].t = "W" /\ log[i].r \in ChanRegs) => handle = "valid"

\* the MODE1 read of setPWMFreq failed: 9 transactions, nothing after it
C9_Witness ==
    /\ pc = "idle"
    /\ cur.op = "Open"
    /\ ret.err = "TransactionFailed"
    /\ handle = "none"
    /\ conn = "closed"
    /\ closeCalls = 1
    /\ Len(BusLog(log)) = 9
    /\ log[Len(log)].t = "R"
    /\ ~log[Len(log)].ok

C11_BusUnavailable ==
    [][ (pc = "idle" /\ handle = "none" /\ ret'.err = "BusUnavailable") =>
            /\ ret'.op = "Open"
            /\ handle' = "none"
            /\ pc' = "idle"
            /\ log' = << >>
            /\ regs' = regs
            /\ faults' = faults
            /\ conn' = "none"
            /\ closeCalls' = 0 ]_vars

\* the bus could not be opened, after an earlier Open whose init had failed
C11_Witness ==
    /\ pc = "idle"
    /\ cur.op = "Open"
    /\ ret.err = "BusUnavailable"
    /\ handle = "none"
    /\ conn = "none"
    /\ closeCalls = 0
    /\ log = << >>
    /\ faults = 1

(***************************************************************************)
(* C12: each multi-register sequence short-circuits.  In the 4 writes of   *)
(* one setPWM call, the 4 broadcast writes of setAllPWM and the read and 4 *)
(* writes of setPWMFreq, a failed transaction is the last one the sequence *)
(* issues; the writes issued before it are in program order and stay       *)
(* applied to the registers; without a failure every write made so far was *)
(* issued; the sequence's err is the failure exactly when one of its       *)
(* transactions failed; a failed MODE1 read of setPWMFreq is followed by   *)
(* no write.                                                               *)
(***************************************************************************)
\* the writes of the running command to the registers of channel ch: one setPWM call
SeqOf(ch) == SelectSeq(log, LAMBDA e : e.t = "W" /\ e.r \in OnL(ch)..OffH(ch))

ErrOf(s) == IF AnyFailed(s) THEN "TransactionFailed" ELSE "nil"

\* the last completed write to each register is what the register holds
WritesApplied ==
    \A i \in 1..Len(log) :
        (/\ log[i].t = "W"
         /\ log[i].ok
         /\ \A j \in (i + 1)..Len(log) : ~(log[j].t = "W" /\ log[j].ok /\ log[j].r = log[i].r))
        => regs[log[i].r] = log[i].v

C12_ShortCircuit ==
    /\ WritesApplied
    /\ cur.op \in MotorOps =>
          /\ \A ch \in { (log[i].r - 6) \div 4 : i \in 1..Len(log) } :
                LET s == SeqOf(ch)
                IN  /\ Len(s) <= 4
                    /\ \A i \in 1..Len(s) : s[i].r = OnL(ch) + i - 1
                    /\ \A i \in 1..Len(s) : ~s[i].ok => i = Len(s)
          /\ (pc = "setPWM" /\ k > 1) =>
                LET s == SeqOf(Head(todo).pin)
                IN  /\ err = ErrOf(s)
                    /\ ~AnyFailed(s) => Len(s) = k - 1
          /\ (pc = "setPWM" /\ k = 1 /\ log # << >>) =>
                LET s == SeqOf(TableIn1(cur.m))
                IN  /\ err = ErrOf(s)
                    /\ ~AnyFailed(s) => Len(s) = 4
          /\ Returned(MotorOps) =>
                LET s == SeqOf(IF cur.op = "Speed" THEN TablePWM(cur.m) ELSE TableIn2(cur.m))
                IN  /\ err = ErrOf(s)
                    /\ ~AnyFailed(s) => Len(s) = 4
    /\ cur.op = "Open" =>
          LET t == BusLog(log)
          IN  /\ \A i \in (1..4) \cup (9..13) : (i <= Len(t) /\ ~t[i].ok) => Len(t) = i
              /\ (pc = "setAllPWM" /\ k > 1) =>
                    (err = ErrOf(t) /\ (~AnyFailed(t) => Len(t) = k - 1))
              /\ (pc = "setPWMFreq" /\ k > 1) =>
                    (err = ErrOf(t) /\ (~AnyFailed(t) => Len(t) = 8 + k - 1))
              /\ (pc = "idle" /\ AnyFailed(t)) => err = "TransactionFailed"
              /\ (Len(t) >= 9 /\ ~t[9].ok) =>
                    (Len(t) = 9 /\ t[9].t = "R" /\ pc = "idle")

\* Speed(1, 255) whose fourth write failed: OFF_L holds 240, OFF_H was not written
C12_Witness ==
    /\ Returned({"Speed"})
    /\ cur.m = 1
    /\ cur.s = 255
    /\ Len(log) = 4
    /\ log[3].ok
    /\ ~log[4].ok
    /\ regs[40] = 240
    /\ regs[41] = 0
    /\ err = "TransactionFailed"

(***************************************************************************)
(* C13: a fault-free frequency change issues, in this order: read MODE1    *)
(* (old); write MODE1 with SLEEP set (old with bit 7 cleared and SLEEP     *)
(* set); write PRESCALE; write MODE1 = old; sleep; write MODE1 = old with  *)
(* RESTART set, which is the last transaction.  In every state, a write to *)
(* PRESCALE was issued only straight after a completed MODE1 write that    *)
(* has SLEEP set.                                                          *)
(***************************************************************************)
C13_FrequencyChange ==
    /\ (pc = "idle" /\ cur.op = "Open" /\ ret.err = "nil") =>
          LET n   == Len(log)
              f   == SubSeq(log, n - 5, n)
              old == f[1].v
          IN  /\ n = 16
              /\ AllOk(log)
              /\ f[1] = [t |-> "R", r |-> 0, v |-> old, ok |-> TRUE]
              /\ f[2].t = "W" /\ f[2].r = 0
              /\ HasBit(f[2].v, 16)
              /\ ~HasBit(f[2].v, 128)
              /\ f[2].v % 16 = old % 16
              /\ (f[2].v \div 32) % 4 = (old \div 32) % 4
              /\ f[3].t = "W" /\ f[3].r = 254
              /\ f[4] = W(0, old)
              /\ f[5].t = "S"
              /\ f[6].t = "W" /\ f[6].r = 0
              /\ HasBit(f[6].v, 128)
              /\ f[6].v % 128 = old % 128
    /\ \A i \in 1..Len(log) :
          (log[i].t = "W" /\ log[i].r = 254) =>
              /\ i > 1
              /\ log[i - 1].t = "W"
              /\ log[i - 1].r = 0
              /\ log[i - 1].ok
              /\ HasBit(log[i - 1].v, 16)

\* a completed Open on a bus whose reads returned 1: 0x11, prescale, 0x01, sleep, 0x81
C13_Witness ==
    /\ pc = "idle"
    /\ cur.op = "Open"
    /\ ret.err = "nil"
    /\ Len(log) = 16
    /\ log[11].v = 1
    /\ log[12] = W(0, 17)
    /\ log[13].r = 254
    /\ log[14] = W(0, 1)
    /\ log[15].t = "S"
    /\ log[16] = W(0, 129)

(***************************************************************************)
(* C14: once the board is open, in every state (between the register       *)
(* writes of a command too, and whatever write fails) no motor has both    *)
(* direction channels in1 and in2 held high.  Forward writes in1 high      *)
(* before it clears in2 and Backward writes in2 high after it clears in1   *)
(* only, so Forward straight after Backward passes through both high:      *)
(* this is violated.                                                       *)
(***************************************************************************)
C14_NeverBothHigh ==
    handle = "valid" =>
        \A m \in 1..4 : ~(FullOn(TableIn1(m)) /\ FullOn(TableIn2(m)))

(***************************************************************************)
(* C15: for every channel in 0..15 and on, off in 0..4095, a setPWM whose  *)
(* writes all complete has issued exactly four writes, to 0x06 + 4*channel *)
(* and the three addresses after it, of the bytes on & 0xFF, on >> 8,      *)
(* off & 0xFF, off >> 8 in this order; each is a byte, and low + 256*high  *)
(* of the registers of the channel gives on and off back.                  *)
(***************************************************************************)
C15_DutyEncoding ==
    (cur.op = "setPWM" /\ pc = "idle" /\ AllOk(log)) =>
        LET ch == cur.pin
        IN  /\ ch \in 0..15 /\ cur.on \in 0..4095 /\ cur.off \in 0..4095
            /\ Len(log) = 4
            /\ \A i \in 1..4 : log[i].t = "W" /\ log[i].r = 5 + 4 * ch + i /\ log[i].v \in 0..255
            /\ log[1].v = cur.on - 256 * log[2].v
            /\ log[2].v * 256 <= cur.on /\ cur.on < (log[2].v + 1) * 256
            /\ log[3].v = cur.off - 256 * log[4].v
            /\ log[4].v * 256 <= cur.off /\ cur.off < (log[4].v + 1) * 256
            /\ OnValue(ch) = cur.on
            /\ OffValue(ch) = cur.off
            /\ ret = [op |-> "setPWM", err |-> "nil"]

\* setPWM(15, 4095, 256) has completed: 0xFF, 0x0F, 0x00, 0x01 at 0x42..0x45
C15_Witness ==
    /\ cur = [op |-> "setPWM", pin |-> 15, on |-> 4095, off |-> 256]
    /\ pc = "idle"
    /\ log = << W(66, 255), W(67, 15), W(68, 0), W(69, 1) >>
    /\ regs[66] = 255 /\ regs[67] = 15 /\ regs[68] = 0 /\ regs[69] = 1

(***************************************************************************)
(* C16: setPin(ch, 1), when its writes complete, has written the bytes of  *)
(* on = 4096, off = 0 (ON_H = 0x10, the other three 0) to the registers of *)
(* ch; setPin(ch, 0) the bytes of on = 0, off = 4096 (OFF_H = 0x10, the    *)
(* other three 0); for any other value it returns at once: no bus          *)
(* transaction is issued or pending and every register is as it was.       *)
(***************************************************************************)
C16_DigitalPin ==
    cur.op = "setPin" =>
        LET ch == cur.pin
        IN  /\ (cur.value = 1 /\ pc = "idle" /\ AllOk(log)) =>
                  /\ log = DigitalWrites(ch, 1)
                  /\ OnValue(ch) = 4096 /\ OffValue(ch) = 0
                  /\ regs = [a \in Addrs |-> IF a = OnH(ch) THEN 16 ELSE OpenedRegs[a]]
            /\ (cur.value = 0 /\ pc = "idle" /\ AllOk(log)) =>
                  /\ log = DigitalWrites(ch, 0)
                  /\ OnValue(ch) = 0 /\ OffValue(ch) = 4096
                  /\ regs = [a \in Addrs |-> IF a = OffH(ch) THEN 16 ELSE OpenedRegs[a]]
            /\ cur.value \notin {0, 1} =>
                  /\ pc = "idle"
                  /\ log = << >>
                  /\ regs = OpenedRegs
                  /\ faults = 0
                  /\ ~ENABLED NextCall
            /\ pc = "idle" => ret = [op |-> "setPin", err |-> "nil"]

\* setPin(9, 1) has completed on the board Open left: ON_H of channel 9 is 0x10
C16_Witness ==
    /\ cur = [op |-> "setPin", pin |-> 9, value |-> 1]
    /\ pc = "idle"
    /\ Len(log) = 4
    /\ AllOk(log)
    /\ regs[43] = 16
    /\ regs[45] = 0

(***************************************************************************)
(* C17: the 12 channels of the motor table are pairwise distinct, and      *)
(* every step of a motor command writes only registers of its own motor:   *)
(* a step of Speed(m, v) issues writes to the PWM channel of m only and    *)
(* leaves the direction channels of m and all channels of the other motors *)
(* unchanged; a step of Forward/Backward/Stop(m) issues writes to in1 and  *)
(* in2 of m only and leaves the PWM channel of m and all channels of the   *)
(* other motors unchanged; no step of a command writes or changes MODE1,   *)
(* MODE2, PRESCALE or an ALL_LED register.  A command on an unknown motor  *)
(* writes nothing.                                                         *)
(***************************************************************************)
ChRegs(ch)    == OnL(ch)..OffH(ch)
MotorRegs(m)  == ChRegs(TablePWM(m)) \cup ChRegs(TableIn1(m)) \cup ChRegs(TableIn2(m))
DirRegs(m)    == ChRegs(TableIn1(m)) \cup ChRegs(TableIn2(m))
ControlRegs   == {0, 1, 254} \cup 250..253
OwnRegs(op, m) ==
    IF m \notin 1..4 THEN {}
    ELSE IF op = "Speed" THEN ChRegs(TablePWM(m))
    ELSE DirRegs(m)
\* what a command must leave alone
FrameRegs(op, m) ==
    ControlRegs
      \cup UNION { MotorRegs(o) : o \in (1..4) \ {m} }
      \cup (IF m \notin 1..4 THEN {}
            ELSE IF op = "Speed" THEN DirRegs(m)
            ELSE ChRegs(TablePWM(m)))

\* the channels getMotor returns are 12 different ones
TableDistinct ==
    Cardinality({ getMotor(m).pwm : m \in 1..4 }
                  \cup { getMotor(m).in1 : m \in 1..4 }
                  \cup { getMotor(m).in2 : m \in 1..4 }) = 12

\* own and frame registers of every command, and that they are apart
OwnOf    == [op \in MotorOps, m \in MotorIds |-> OwnRegs(op, m)]
FrameOf  == [op \in MotorOps, m \in MotorIds |-> FrameRegs(op, m)]
FrameApart ==
    \A op \in MotorOps, m \in MotorIds :
        /\ OwnOf[op, m] \cap FrameOf[op, m] = {}
        /\ FrameOf[op, m] \subseteq Addrs

C17_Frame ==
    [][ /\ TableDistinct
        /\ FrameApart
        /\ cur'.op \in MotorOps =>
              /\ \A a \in FrameOf[cur'.op, cur'.m] : regs'[a] = regs[a]
              /\ \A i \in 1..Len(log') :
                    /\ log'[i].t = "W"
                    /\ log'[i].r \in OwnOf[cur'.op, cur'.m] ]_vars

\* Speed(1, 128) has completed after Forward(1): channel 8 holds the duty,
\* channels 10 and 9 are as Forward left them
C17_Witness ==
    /\ Returned({"Speed"})
    /\ cur.m = 1
    /\ cur.s = 128
    /\ lastDir[1] = "Forward"
    /\ faults = 0
    /\ OffValue(8) = 2048
    /\ FullOn(10)
    /\ FullOff(9)

(***************************************************************************)
(* C18: after a successful Open on a bus whose MODE1 reads returned the    *)
(* register (the last byte written to MODE1), the chip is awake: the last  *)
(* write to MODE1 completed with SLEEP (0x10) clear and ALLCALL (0x01)     *)
(* set and MODE1 holds that byte, MODE2 holds OUTDRV (0x04), and exactly   *)
(* one MODE1 write has SLEEP set, the one straight before the write to     *)
(* PRESCALE.                                                               *)
(***************************************************************************)
Mode1Writes == { i \in 1..Len(log) : log[i].t = "W" /\ log[i].r = 0 }

C18_AwakeAfterOpen ==
    (pc = "idle" /\ cur.op = "Open" /\ handle = "valid" /\ faithful) =>
        LET last    == CHOOSE i \in Mode1Writes : \A j \in Mode1Writes : j <= i
            asleep  == { i \in Mode1Writes : HasBit(log[i].v, 16) }
        IN  /\ Mode1Writes # {}
            /\ log[last].ok
            /\ ~HasBit(log[last].v, 16)
            /\ HasBit(log[last].v, 1)
            /\ regs[0] = log[last].v
            /\ regs[1] = 4
            /\ Cardinality(asleep) = 1
            /\ \A i \in asleep :
                  /\ i < Len(log)
                  /\ log[i + 1].t = "W"
                  /\ log[i + 1].r = 254

\* Open has returned a handle, every read was faithful: MODE1 = 0x81, MODE2 = 0x04
C18_Witness ==
    /\ pc = "idle"
    /\ cur.op = "Open"
    /\ handle = "valid"
    /\ faithful
    /\ busNoise # {}
    /\ regs[0] = 129
    /\ regs[1] = 4
    /\ log[12] = W(0, 17)
    /\ log[13].r = 254

(***************************************************************************)
(* C19: for every frequency f in 40..1600 the byte setPWMFreq(f) writes to *)
(* PRESCALE is p = floor(25000000/4096/f - 1 + 0.05): p is in 0..255 and   *)
(* p <= (500000000 - 77824*f) / (81920*f) < p + 1, so the conversion to a  *)
(* byte has not truncated the floor.  The exact value is never within      *)
(* 256/(81920*f) of an integer, so rounding in the floating-point          *)
(* computation cannot move the floor.                                      *)
(***************************************************************************)
C19_PrescaleByte ==
    (cur.op = "setPWMFreq" /\ pc = "idle") =>
        LET f   == cur.freq
            p   == log[1].v
            num == 500000000 - 77824 * f
            den == 81920 * f
        IN  /\ f \in 40..1600
            /\ log = << [t |-> "W", r |-> 254, v |-> p, ok |-> err = "nil"] >>
            /\ p \in 0..255
            /\ p * den <= num
            /\ num < (p + 1) * den
            /\ num - p * den >= 256
            /\ (p + 1) * den - num >= 256
            /\ err = "nil" => regs[254] = p

\* setPWMFreq(40) has written its prescale byte: floor(151.64) = 151
C19_Witness ==
    /\ cur.op = "setPWMFreq"
    /\ pc = "idle"
    /\ err = "nil"
    /\ cur.freq = 40
    /\ regs[254] = 151

(***************************************************************************)
(* C20: every public operation ends after a bounded number of bus          *)
(* transactions, whichever of them fail.  Speed issues at most 4 register  *)
(* writes and Forward, Backward and Stop at most 8, each to a different    *)
(* register; Open issues at most 13 transactions: 4 broadcast writes, then *)
(* write, write, read, write of the mode setup, then 1 read and 4 writes   *)
(* of the frequency change.  A failed transaction is never followed by a   *)
(* transaction on the same register.  A command that has not returned has  *)
(* a write left to try, and the transactions it has issued and those left  *)
(* to try stay within its bound; an Open that has not returned can take    *)
(* its next step.  When nothing fails the counts are exactly 4, 8 and 13.  *)
(***************************************************************************)
OpenShape == << "W", "W", "W", "W", "W", "W", "R", "W", "R", "W", "W", "W", "W" >>

C20_BoundedTransactions ==
    LET t == BusLog(log)
        n == Len(t)
    IN  /\ cur.op = "Speed" => n <= 4
        /\ cur.op \in DirOps => n <= 8
        /\ cur.op \in MotorOps =>
              /\ \A i \in 1..n : t[i].t = "W"
              /\ \A i, j \in 1..n : i # j => t[i].r # t[j].r
        /\ cur.op = "Open" =>
              /\ n <= 13
              /\ \A i \in 1..n : t[i].t = OpenShape[i]
              /\ \A i \in 1..n : i <= 4 <=> t[i].r \in 250..253
        /\ \A i \in 1..(n - 1) : ~t[i].ok => t[i + 1].r # t[i].r
        /\ pc = "setPWM" =>
              /\ todo # << >>
              /\ k \in 1..4
              /\ n + 4 * Len(todo) - (k - 1) <= (IF cur.op = "Speed" THEN 4 ELSE 8)
        /\ pc = "setAllPWM" => ENABLED setAllPWM
        /\ pc = "initPWM" => ENABLED initPWM
        /\ pc = "setPWMFreq" => ENABLED setPWMFreq
        /\ (pc = "idle" /\ AllOk(log) /\ ret.err = "nil") =>
              /\ cur.op = "Speed" => n = 4
              /\ cur.op \in DirOps => n = 8
              /\ cur.op = "Open" => n = 13

\* Stop(1) has returned after 5 writes: the first write of in1 failed, the
\* four writes of in2 followed
C20_Witness ==
    /\ Returned({"Stop"})
    /\ cur.m = 1
    /\ Len(log) = 5
    /\ ~log[1].ok
    /\ log[1].r = 46
    /\ log[5] = W(45, 16)

=============================================================================
